---------------------------- MODULE Spec2Model ----------------------------
(***************************************************************************)
(* A model of flask-app/app.py: the GET / handler `home`, the two upstream *)
(* calls of get_hourly_forecast, the comfort-metric functions and the      *)
(* per-period enrichment loop.                                             *)
(*                                                                         *)
(* Python values are records [t, n, s] of one shape: t is the type tag     *)
(* ("null" for None, "num", "str", "obj" for a JSON object without a       *)
(* 'value' key, "wrap" for a JSON object {"value": ...}, "raise" for an    *)
(* exception leaving the expression), n the number, s the text as a        *)
(* sequence of one-character strings.  Numbers are integers.               *)
(***************************************************************************)
EXTENDS Integers, Sequences, FiniteSets, TLC

VARIABLES pc, grid, hourly_forecast, theme, idx, chart_labels,
          chart_real_feel, response, upstream, call

vars == <<pc, grid, hourly_forecast, theme, idx, chart_labels,
          chart_real_feel, response, upstream, call>>

(***************************************************************************)
(* Bounds of the model.                                                    *)
(***************************************************************************)
NumRequests == 2
MaxPeriods == 26
MaxConcPeriods == 2
MaxTextLen == 4
MaxWindMph == 12

(***************************************************************************)
(* Python values.                                                          *)
(***************************************************************************)
None == [t |-> "null", n |-> 0, s |-> <<>>, in |-> "null"]
Num(k) == [t |-> "num", n |-> k, s |-> <<>>, in |-> "null"]
Str(cs) == [t |-> "str", n |-> 0, s |-> cs, in |-> "null"]
Obj == [t |-> "obj", n |-> 0, s |-> <<>>, in |-> "null"]
Raise == [t |-> "raise", n |-> 0, s |-> <<>>, in |-> "null"]
\* {"value": v} for an unwrapped v
Wrap(v) == [t |-> "wrap", n |-> v.n, s |-> v.s, in |-> v.t]
Unwrap(v) == [t |-> v.in, n |-> v.n, s |-> v.s, in |-> "null"]

IsNone(v) == v.t = "null"
IsNum(v) == v.t = "num"
IsStr(v) == v.t = "str"
Raised(v) == v.t = "raise"

\* bool(v): None, 0, "" are false; a JSON object with a key is true
Truthy(v) ==
    CASE v.t = "null" -> FALSE
      [] v.t = "num" -> v.n # 0
      [] v.t = "str" -> v.s # <<>>
      [] OTHER -> TRUE

(***************************************************************************)
(* Text: str.strip, str.replace, str.split, str.isdigit, int().            *)
(***************************************************************************)
Digits == <<"0", "1", "2", "3", "4", "5", "6", "7", "8", "9">>
IsSpace(c) == c \in {" ", "\n", "\t"}
IsDigitChar(c) == \E d \in 1..10 : Digits[d] = c
DigitVal(c) == (CHOOSE d \in 1..10 : Digits[d] = c) - 1

RECURSIVE LStrip(_)
LStrip(cs) ==
    IF cs # <<>> /\ IsSpace(Head(cs)) THEN LStrip(Tail(cs)) ELSE cs

RECURSIVE RStrip(_)
RStrip(cs) ==
    IF cs # <<>> /\ IsSpace(cs[Len(cs)])
    THEN RStrip(SubSeq(cs, 1, Len(cs) - 1))
    ELSE cs

Strip(cs) == RStrip(LStrip(cs))

IsPrefix(p, cs) == Len(p) <= Len(cs) /\ SubSeq(cs, 1, Len(p)) = p

\* cs.replace(old, new), old non-empty: leftmost matches, left to right
RECURSIVE Replace(_, _, _)
Replace(cs, old, new) ==
    IF cs = <<>> THEN <<>>
    ELSE IF IsPrefix(old, cs)
         THEN new \o Replace(SubSeq(cs, Len(old) + 1, Len(cs)), old, new)
         ELSE <<Head(cs)>> \o Replace(Tail(cs), old, new)

\* the characters of cs up to its first whitespace
RECURSIVE TakeToken(_)
TakeToken(cs) ==
    IF cs = <<>> \/ IsSpace(Head(cs)) THEN <<>>
    ELSE <<Head(cs)>> \o TakeToken(Tail(cs))

\* cs.split(): the whitespace-delimited tokens of cs
RECURSIVE Split(_)
Split(cs) ==
    LET rest == LStrip(cs)
        tok == TakeToken(rest)
    IN IF rest = <<>> THEN <<>>
       ELSE <<tok>> \o Split(SubSeq(rest, Len(tok) + 1, Len(rest)))

\* tok.isdigit(): non-empty and every character a digit
IsDigit(tok) == tok # <<>> /\ \A i \in 1..Len(tok) : IsDigitChar(tok[i])

\* int(tok) for a token of decimal digits
RECURSIVE ParseInt(_)
ParseInt(tok) ==
    IF tok = <<>> THEN 0
    ELSE 10 * ParseInt(SubSeq(tok, 1, Len(tok) - 1)) + DigitVal(tok[Len(tok)])

\* str(k) for a natural number k
RECURSIVE NatText(_)
NatText(k) ==
    IF k < 10 THEN <<Digits[k + 1]>>
    ELSE NatText(k \div 10) \o <<Digits[(k % 10) + 1]>>

IntText(k) == IF k < 0 THEN <<"-">> \o NatText(-k) ELSE NatText(k)

\* the text an f-string puts for {v}
Format(v) ==
    CASE v.t = "null" -> <<"N", "o", "n", "e">>
      [] v.t = "num" -> IntText(v.n)
      [] v.t = "obj" -> <<"{", "}">>
      [] OTHER -> v.s

DegF == <<"°", "F">>
Nbsp == <<"&", "n", "b", "s", "p", ";">>

(***************************************************************************)
(* Arithmetic.  The floating-point formulas are evaluated in fixed point,  *)
(* in millionths, with products split so that no intermediate exceeds 31   *)
(* bits; round() is Python's, half to even.                                *)
(***************************************************************************)
\* floor(a * b / d) without forming a * b
MulDiv(a, b, d) == (a \div d) * b + ((a % d) * b) \div d

\* round(num / den), den > 0
Round(num, den) ==
    LET q == num \div den
        r == num % den
    IN IF 2 * r < den THEN q
       ELSE IF 2 * r > den THEN q + 1
       ELSE IF q % 2 = 0 THEN q ELSE q + 1

\* wind_speed_mph ** 0.16 in units of 10^-8, for 1..99 mph
Pow016 ==
   <<
      100000000, 111728714, 119217333, 124833055, 129370483, 133199992,
      136526101, 139474367, 142127724, 144543977, 146765112, 148822638,
      150740842, 152538856, 154232039, 155832916, 157351841, 158797478,
      160177155, 161497126, 162762776, 163978772, 165149192, 166277620,
      167367220, 168420804, 169440882, 170429702, 171389290, 172321474,
      173227912, 174110113, 174969451, 175807188, 176624476, 177422380,
      178201878, 178963875, 179709211, 180438662, 181152953, 181852756,
      182538700, 183211373, 183871324, 184519068, 185155091, 185779846,
      186393762, 186997242, 187590667, 188174398, 188748774, 189314118,
      189870734, 190418914, 190958932, 191491049, 192015515, 192532566,
      193042429, 193545318, 194041440, 194530989, 195014156, 195491118,
      195962047, 196427110, 196886462, 197340256, 197788636, 198231743,
      198669710, 199102666, 199530735, 199954036, 200372684, 200786790,
      201196460, 201601797, 202002899, 202399864, 202792783, 203181745,
      203566837, 203948142, 204325740, 204699710, 205070127, 205437065,
      205800593, 206160782, 206517696, 206871401, 207221960, 207569432,
      207913877, 208255352, 208593913
   >>

\* 35.74 + 0.6215*T - 35.75*v^0.16 + 0.4275*T*v^0.16, in millionths
WindChillMicro(T, v) ==
    LET p == Pow016[v]
    IN 35740000 + 621500 * T
       - MulDiv(p, 3575, 10000)
       + MulDiv(MulDiv(p, 4275, 10000), T, 100)

\* a wind chill that starts above 3 mph
calculate_wind_chill_above_3(temp_f, wind_speed_mph) ==
    IF IsNone(temp_f) \/ IsNone(wind_speed_mph) \/ wind_speed_mph.n <= 3
    THEN None
    ELSE IF ~IsNum(temp_f) THEN Raise
    ELSE Num(Round(WindChillMicro(temp_f.n, wind_speed_mph.n), 1000000))

calculate_wind_chill(temp_f, wind_speed_mph) ==
    IF IsNone(temp_f) \/ IsNone(wind_speed_mph) \/ wind_speed_mph.n < 3
    THEN None
    ELSE IF ~IsNum(temp_f) THEN Raise
    ELSE Num(Round(WindChillMicro(temp_f.n, wind_speed_mph.n), 1000000))

\* the Rothfusz polynomial in T and H = h / 100, in millionths
HeatIndexMicro(T, h) ==
    LET th == T * h
        tt == T * T
        hh == h * h
    IN -42379000
       + 2049015 * T + (23 * T) \div 100
       + 101433 * h + (3127 * h) \div 10000
       - (2247 * th + (5541 * th) \div 10000)
       - (6837 * tt + (83 * tt) \div 100)
       - (5 * hh + (4817 * hh) \div 10000)
       + (12 * (tt * h) + MulDiv(tt * h, 2874, 10000))
       + ((85 * (T * hh)) \div 1000 + (282 * (T * hh)) \div 1000000)
       - MulDiv(tt * hh, 199, 1000000)

calculate_heat_index(temp_f, humidity) ==
    IF IsNone(temp_f) \/ IsNone(humidity) THEN None
    ELSE IF ~IsNum(humidity) \/ ~IsNum(temp_f) THEN Raise
    ELSE Num(Round(HeatIndexMicro(temp_f.n, humidity.n), 1000000))

\* a real feel that takes the wind chill whenever there is one
real_feel_wind_chill_first(temp_f, wind_chill, heat_index) ==
    IF ~IsNone(wind_chill) THEN wind_chill
    ELSE IF ~IsNone(heat_index) THEN heat_index
    ELSE temp_f

\* lines 95-102: the blended real feel
real_feel(temp_f, wind_chill, heat_index) ==
    IF ~IsNone(wind_chill) /\ ~IsNone(heat_index)
    THEN Num(Round(wind_chill.n + heat_index.n, 2))
    ELSE IF ~IsNone(wind_chill) THEN wind_chill
    ELSE IF ~IsNone(heat_index) THEN heat_index
    ELSE temp_f

\* round((dewpoint_c * 9/5) + 32)
dewpoint_f(dewpoint_c) ==
    IF IsNone(dewpoint_c) THEN None
    ELSE IF ~IsNum(dewpoint_c) THEN Raise
    ELSE Num(Round(9 * dewpoint_c.n + 160, 5))

(***************************************************************************)
(* The helpers of home.                                                    *)
(***************************************************************************)
\* lines 66-72
get_value(value, round_to_int) ==
    IF value.t = "wrap"
    THEN LET val == Unwrap(value)
         IN IF round_to_int /\ ~IsNone(val)
            THEN (IF IsNum(val) THEN val ELSE Raise)
            ELSE val
    ELSE IF IsStr(value)
    THEN Str(Strip(Replace(value.s, <<"\n">>, <<" ">>)))
    ELSE value

\* a start time: "ok" parses as an ISO timestamp, "invalid" does not, "absent"
\* is a period without the key
Time(mo, d, h) == [kind |-> "ok", mo |-> mo, d |-> d, h |-> h]
NoTime == [kind |-> "absent", mo |-> 1, d |-> 1, h |-> 0]
BadTime == [kind |-> "invalid", mo |-> 1, d |-> 1, h |-> 0]

Pad2(k) == IF k < 10 THEN <<"0">> \o NatText(k) ELSE NatText(k)

\* str.lstrip("0")
RECURSIVE LStripZero(_)
LStripZero(cs) ==
    IF cs # <<>> /\ Head(cs) = "0" THEN LStripZero(Tail(cs)) ELSE cs

\* strftime("%m/%d")
DateStr(dt) == Pad2(dt.mo) \o <<"/">> \o Pad2(dt.d)

\* strftime("%I %p").lstrip("0")
TimeStr(dt) ==
    LET h12 == IF dt.h % 12 = 0 THEN 12 ELSE dt.h % 12
    IN LStripZero(Pad2(h12) \o <<" ">>
                  \o (IF dt.h < 12 THEN <<"A", "M">> ELSE <<"P", "M">>))

Br == <<"<", "b", "r", ">">>

\* a label that is dated on the first row only
format_time_first_only(start_time, is_first_row) ==
    IF start_time.kind # "ok" THEN Raise
    ELSE IF is_first_row
         THEN Str(DateStr(start_time) \o Br \o TimeStr(start_time))
         ELSE Str(TimeStr(start_time))

\* lines 74-78
format_time(start_time, is_first_row) ==
    IF start_time.kind # "ok" THEN Raise
    ELSE IF is_first_row \/ start_time.h = 0
         THEN Str(DateStr(start_time) \o Br \o TimeStr(start_time))
         ELSE Str(TimeStr(start_time))

\* a parser that reads the leading digits of the first token
RECURSIVE LeadingDigits(_)
LeadingDigits(cs) ==
    IF cs = <<>> \/ ~IsDigitChar(Head(cs)) THEN <<>>
    ELSE <<Head(cs)>> \o LeadingDigits(Tail(cs))

wind_speed_mph_leading(wind_speed) ==
    IF ~Truthy(wind_speed) THEN None
    ELSE IF ~IsStr(wind_speed) THEN Raise
    ELSE IF Split(wind_speed.s) = <<>> THEN Raise
    ELSE LET tok == LeadingDigits(Split(wind_speed.s)[1])
         IN IF tok # <<>> THEN Num(ParseInt(tok)) ELSE None

\* line 87
wind_speed_mph(wind_speed) ==
    IF ~Truthy(wind_speed) THEN None
    ELSE IF ~IsStr(wind_speed) THEN Raise
    ELSE IF Split(wind_speed.s) = <<>> THEN Raise
    ELSE LET tok == Split(wind_speed.s)[1]
         IN IF IsDigit(tok) THEN Num(ParseInt(tok)) ELSE None

\* line 109
wind_speed_display(wind_speed) ==
    IF ~Truthy(wind_speed) THEN Str(<<>>)
    ELSE IF ~IsStr(wind_speed) THEN Raise
    ELSE Str(Replace(wind_speed.s, Nbsp, <<" ">>))

\* lines 105-107: f"{v}°F" if v is not None else ""
Display(v) == IF IsNone(v) THEN Str(<<>>) ELSE Str(Format(v) \o DegF)

\* line 104: f"{real_feel}°F"
RealFeelDisplay(v) == Str(Format(v) \o DegF)

\* a provider period
Period(start, temp, hum, wind, dew, pop) ==
    [startTime |-> start, temperature |-> temp, relativeHumidity |-> hum,
     windSpeed |-> wind, dewpoint |-> dew, probabilityOfPrecipitation |-> pop,
     realFeel |-> None, windChill |-> None, heatIndex |-> None,
     precipitationProbability |-> None]

\* lines 84-113: one pass of the loop body over `period`
EnrichOne(period) ==
    LET temp_f == get_value(period.temperature, FALSE)
        humidity == get_value(period.relativeHumidity, FALSE)
        wind_speed == get_value(period.windSpeed, FALSE)
        mph == wind_speed_mph(wind_speed)
        dewpoint_c == get_value(period.dewpoint, FALSE)
        dew_f == dewpoint_f(dewpoint_c)
        wind_chill == IF Raised(mph) THEN Raise
                      ELSE calculate_wind_chill(temp_f, mph)
        heat_index == calculate_heat_index(temp_f, humidity)
        rf == IF Raised(wind_chill) \/ Raised(heat_index) THEN Raise
              ELSE real_feel(temp_f, wind_chill, heat_index)
        precip == get_value(period.probabilityOfPrecipitation, TRUE)
        label == format_time(period.startTime, FALSE)
    IN [raised |-> \E v \in {mph, dew_f, wind_chill, heat_index, rf, precip,
                             label} : Raised(v),
        temp_f |-> temp_f,
        wind_speed_mph |-> mph,
        wind_chill |-> wind_chill,
        heat_index |-> heat_index,
        dewpoint_f |-> dew_f,
        real_feel |-> rf,
        label |-> label,
        period |-> [period EXCEPT
                      !.realFeel = RealFeelDisplay(rf),
                      !.windChill = Display(wind_chill),
                      !.heatIndex = Display(heat_index),
                      !.dewpoint = Display(dew_f),
                      !.windSpeed = wind_speed_display(wind_speed),
                      !.precipitationProbability = precip]]

(***************************************************************************)
(* The provider: the responses the two upstream calls can receive.         *)
(***************************************************************************)
Chars(str) ==
    CASE str = "10 mph" -> <<"1", "0", " ", "m", "p", "h">>
      [] str = "5 mph" -> <<"5", " ", "m", "p", "h">>
      [] str = "2 mph" -> <<"2", " ", "m", "p", "h">>
      [] str = "3 mph" -> <<"3", " ", "m", "p", "h">>
      [] str = "mph" -> <<"m", "p", "h">>
      [] str = " 12 mph" -> <<" ", "1", "2", " ", "m", "p", "h">>
      [] str = "7 mph\n" -> <<"7", " ", "m", "p", "h", "\n">>
      [] str = "8\nmph" -> <<"8", "\n", "m", "p", "h">>
      [] str = "10&nbsp;mph" -> <<"1", "0">> \o Nbsp \o <<"m", "p", "h">>
      [] str = "6 mph&nbsp;NW" -> <<"6", " ", "m", "p", "h">> \o Nbsp \o <<"N", "W">>
      [] str = "10mph" -> <<"1", "0", "m", "p", "h">>
      [] str = "5 to 10 mph" ->
           <<"5", " ", "t", "o", " ", "1", "0", " ", "m", "p", "h">>
      [] str = "hot" -> <<"h", "o", "t">>
      [] str = "" -> <<>>

\* a response to GET /points/{lat},{lon}
PointResponse(transport, status, json, props, keys) ==
    [transport |-> transport, status |-> status, json |-> json,
     props |-> props, keys |-> keys,
     gridId |-> "BUF", gridX |-> 35, gridY |-> 46]

AllGridKeys == {"gridId", "gridX", "gridY"}

PointOkResponse == PointResponse(TRUE, 200, TRUE, TRUE, AllGridKeys)

PointFailures ==
    {PointResponse(FALSE, 0, FALSE, FALSE, {}),
     PointResponse(TRUE, 404, TRUE, FALSE, {}),
     PointResponse(TRUE, 503, FALSE, FALSE, {}),
     PointResponse(TRUE, 503, TRUE, TRUE, AllGridKeys),
     PointResponse(TRUE, 200, FALSE, FALSE, {}),
     PointResponse(TRUE, 200, TRUE, FALSE, {})}
    \cup {PointResponse(TRUE, 200, TRUE, TRUE, AllGridKeys \ {k}) :
            k \in AllGridKeys}

PointResponses == {PointOkResponse} \cup PointFailures

\* the periods of well-formed provider data, by kind
WellFormed(start) ==
    <<Period(start, Num(72), Wrap(Num(50)), Str(Chars("10 mph")),
             Wrap(Num(12)), Wrap(Num(20))),
      Period(start, Num(30), Wrap(None), Str(Chars("5 mph")),
             Wrap(Num(-3)), Wrap(Num(0))),
      Period(start, Num(85), Wrap(Num(70)), Str(Chars("2 mph")),
             Wrap(Num(21)), Wrap(None)),
      Period(start, None, Wrap(Num(40)), Str(Chars("mph")),
             Wrap(None), Wrap(Num(55))),
      Period(start, Num(50), Wrap(None), None,
             Wrap(Num(0)), Wrap(Num(100)))>>

NumWellFormed == Len(WellFormed(NoTime))

\* periods the provider's contract does not allow, by kind
Malformed(start) ==
    <<Period(NoTime, Num(72), Wrap(Num(50)), Str(Chars("10 mph")),
             Wrap(Num(12)), Wrap(Num(20))),
      Period(start, Str(Chars("hot")), Wrap(Num(50)), Str(Chars("10 mph")),
             Wrap(Num(12)), Wrap(Num(20))),
      Period(start, Num(72), Wrap(Str(Chars("hot"))), Str(Chars("10 mph")),
             Wrap(Num(12)), Wrap(Num(20))),
      Period(start, Num(72), Wrap(Num(50)), Num(10),
             Wrap(Num(12)), Wrap(Num(20))),
      Period(start, Num(72), Wrap(Num(50)), Str(Chars("10 mph")),
             Wrap(Str(Chars("hot"))), Wrap(Num(20)))>>

NumMalformed == Len(Malformed(NoTime))

\* the start of the i-th hourly period of a series that begins at hour h0
StartOf(h0, i) ==
    Time(11, 5 + ((h0 + i - 1) \div 24), (h0 + i - 1) % 24)

\* n hourly periods from hour h0: well-formed kinds in rotation from `off`,
\* and, when bad > 0, the malformed kind `bad` in the middle of the series
ProviderPeriods(n, h0, off, bad) ==
    [i \in 1..n |->
        IF bad > 0 /\ i = (n + 1) \div 2
        THEN Malformed(StartOf(h0, i))[bad]
        ELSE WellFormed(StartOf(h0, i))[((off + i) % NumWellFormed) + 1]]

\* a response to GET /gridpoints/{office}/{x},{y}/forecast/hourly
ForecastResponse(transport, status, json, props, hasPeriods, periods) ==
    [transport |-> transport, status |-> status, json |-> json,
     props |-> props, hasPeriods |-> hasPeriods, periods |-> periods]

ForecastFailures ==
    {ForecastResponse(FALSE, 0, FALSE, FALSE, FALSE, <<>>),
     ForecastResponse(TRUE, 500, TRUE, FALSE, FALSE, <<>>),
     ForecastResponse(TRUE, 503, TRUE, TRUE, TRUE,
                      ProviderPeriods(2, 9, 0, 0)),
     ForecastResponse(TRUE, 200, FALSE, FALSE, FALSE, <<>>),
     ForecastResponse(TRUE, 200, TRUE, FALSE, FALSE, <<>>),
     ForecastResponse(TRUE, 200, TRUE, TRUE, FALSE, <<>>)}

ForecastOkResponses(lens, hours, offs, bads) ==
    {ForecastResponse(TRUE, 200, TRUE, TRUE, TRUE,
                      ProviderPeriods(n, h0, off, bad)) :
        n \in lens, h0 \in hours, off \in offs, bad \in bads}

(***************************************************************************)
(* get_hourly_forecast, lines 39-54.                                       *)
(***************************************************************************)
ForecastLimit == 24

Take(seq, k) == SubSeq(seq, 1, IF Len(seq) < k THEN Len(seq) ELSE k)

\* a lookup that does not call raise_for_status
point_lookup_no_status(resp) ==
    resp.transport /\ resp.json /\ resp.props /\ AllGridKeys \subseteq resp.keys

\* lines 41-46 reach line 47: no call raised
point_lookup(resp) ==
    /\ resp.transport
    /\ resp.status < 400
    /\ resp.json
    /\ resp.props
    /\ AllGridKeys \subseteq resp.keys

\* a fetch that lets a missing 'periods' key through
forecast_fetch_unchecked(resp) ==
    IF resp.transport /\ resp.status < 400 /\ resp.json /\ resp.props
    THEN [raised |-> ~resp.hasPeriods, periods |-> Take(resp.periods, ForecastLimit)]
    ELSE [raised |-> FALSE, periods |-> <<>>]

\* a fetch that keeps every period
forecast_fetch_untruncated(resp) ==
    IF resp.transport /\ resp.status < 400 /\ resp.json /\ resp.props
       /\ resp.hasPeriods
    THEN [raised |-> FALSE, periods |-> resp.periods]
    ELSE [raised |-> FALSE, periods |-> <<>>]

\* lines 48-54: the periods returned, the except clause included
forecast_fetch(resp) ==
    IF resp.transport /\ resp.status < 400 /\ resp.json /\ resp.props
       /\ resp.hasPeriods
    THEN [raised |-> FALSE, periods |-> Take(resp.periods, ForecastLimit)]
    ELSE [raised |-> FALSE, periods |-> <<>>]

(***************************************************************************)
(* The requests: each GET / runs home, one step at a time.                 *)
(***************************************************************************)
Requests == 1..NumRequests

NoGrid == [office |-> "", x |-> 0, y |-> 0]

Response(status, body, th, rows, labels, values) ==
    [status |-> status, body |-> body, theme |-> th, rows |-> rows,
     chart_labels |-> labels, chart_real_feel |-> values]

NoResponse == Response(0, "none", "unset", <<>>, <<>>, <<>>)

\* what the server answers when the view function raises
Unhandled == Response(500, "exception", "unset", <<>>, <<>>, <<>>)

\* line 64: the view returns the text of the error
ErrorText == Response(200, "error_text", "unset", <<>>, <<>>, <<>>)

\* chart lists kept at module level, one pair for every request
chart_scope_module(r) == 1

\* lines 80-81: chart_labels and chart_real_feel are locals of the call of
\* home that serves request r
chart_scope(r) == r

Init ==
    /\ pc = [r \in Requests |-> "start"]
    /\ grid = [r \in Requests |-> NoGrid]
    /\ hourly_forecast = [r \in Requests |-> <<>>]
    /\ theme = [r \in Requests |-> "unset"]
    /\ idx = [r \in Requests |-> 0]
    /\ chart_labels = [c \in Requests |-> <<>>]
    /\ chart_real_feel = [c \in Requests |-> <<>>]
    /\ response = [r \in Requests |-> NoResponse]
    /\ upstream = [r \in Requests |-> <<>>]
    /\ call = [fn |-> "none"]

\* lines 41-46: the point lookup and the extraction of the grid cell
PointLookup(r, resps) ==
    /\ pc[r] = "start"
    /\ \E resp \in resps :
         /\ upstream' = [upstream EXCEPT ![r] =
                @ \o <<[url |-> "points", grid |-> NoGrid, resp |-> resp]>>]
         /\ IF point_lookup(resp)
            THEN /\ grid' = [grid EXCEPT ![r] =
                        [office |-> resp.gridId, x |-> resp.gridX,
                         y |-> resp.gridY]]
                 /\ pc' = [pc EXCEPT ![r] = "resolved"]
                 /\ UNCHANGED hourly_forecast
            ELSE /\ hourly_forecast' = [hourly_forecast EXCEPT ![r] = <<>>]
                 /\ pc' = [pc EXCEPT ![r] = "fetched"]
                 /\ UNCHANGED grid
    /\ UNCHANGED <<theme, idx, chart_labels, chart_real_feel, response, call>>

\* lines 47-54 and 59, 63-64: the forecast request and what home gets back
ForecastFetch(r, resps) ==
    /\ pc[r] = "resolved"
    /\ \E resp \in resps :
         LET res == forecast_fetch(resp)
         IN /\ upstream' = [upstream EXCEPT ![r] =
                   @ \o <<[url |-> "gridpoints", grid |-> grid[r],
                           resp |-> resp]>>]
            /\ IF res.raised
               THEN /\ response' = [response EXCEPT ![r] = ErrorText]
                    /\ pc' = [pc EXCEPT ![r] = "done"]
                    /\ UNCHANGED hourly_forecast
               ELSE /\ hourly_forecast' =
                          [hourly_forecast EXCEPT ![r] = res.periods]
                    /\ pc' = [pc EXCEPT ![r] = "fetched"]
                    /\ UNCHANGED response
    /\ UNCHANGED <<grid, theme, idx, chart_labels, chart_real_feel, call>>

\* lines 60-62 and 80-81: the theme from the hour of the day, the empty
\* chart lists
SelectTheme(r, hours) ==
    /\ pc[r] = "fetched"
    /\ \E current_hour \in hours :
         theme' = [theme EXCEPT ![r] =
             IF current_hour >= 19 \/ current_hour < 6 THEN "dark"
             ELSE "light"]
    /\ chart_labels' = [chart_labels EXCEPT ![chart_scope(r)] = <<>>]
    /\ chart_real_feel' = [chart_real_feel EXCEPT ![chart_scope(r)] = <<>>]
    /\ idx' = [idx EXCEPT ![r] = 0]
    /\ pc' = [pc EXCEPT ![r] = "enrich"]
    /\ UNCHANGED <<grid, hourly_forecast, response, upstream, call>>

\* lines 83-113: one iteration of the loop over hourly_forecast
EnrichPeriod(r) ==
    /\ pc[r] = "enrich"
    /\ idx[r] < Len(hourly_forecast[r])
    /\ LET e == EnrichOne(hourly_forecast[r][idx[r] + 1])
       IN IF e.raised
          THEN /\ response' = [response EXCEPT ![r] = Unhandled]
               /\ pc' = [pc EXCEPT ![r] = "done"]
               /\ UNCHANGED <<hourly_forecast, idx, chart_labels,
                              chart_real_feel>>
          ELSE /\ hourly_forecast' =
                     [hourly_forecast EXCEPT ![r][idx[r] + 1] = e.period]
               /\ chart_labels' = [chart_labels EXCEPT ![chart_scope(r)] =
                     Append(@, e.label.s)]
               /\ chart_real_feel' =
                     [chart_real_feel EXCEPT ![chart_scope(r)] =
                        Append(@, e.real_feel)]
               /\ idx' = [idx EXCEPT ![r] = @ + 1]
               /\ UNCHANGED <<response, pc>>
    /\ UNCHANGED <<grid, theme, upstream, call>>

\* lines 186-198: one table row of the template
Row(period, first) ==
    [time |-> format_time(period.startTime, first).s,
     temperature |-> Format(get_value(period.temperature, FALSE)) \o DegF,
     dewpoint |-> period.dewpoint.s,
     realFeel |-> period.realFeel.s,
     windChill |-> period.windChill.s,
     heatIndex |-> period.heatIndex.s,
     windSpeed |-> period.windSpeed.s,
     precipitation |->
        Format(get_value(period.probabilityOfPrecipitation, FALSE)) \o <<"%">>,
     humidity |->
        Format(get_value(period.relativeHumidity, FALSE)) \o <<"%">>]

\* lines 115-204: the page rendered from the locals of home
Page(forecast, th, labels, values) ==
    Response(200, "page", th,
             [i \in 1..Len(forecast) |-> Row(forecast[i], i = 1)],
             labels, values)

Render(r) ==
    /\ pc[r] = "enrich"
    /\ idx[r] = Len(hourly_forecast[r])
    /\ response' = [response EXCEPT ![r] =
          Page(hourly_forecast[r], theme[r], chart_labels[chart_scope(r)],
               chart_real_feel[chart_scope(r)])]
    /\ pc' = [pc EXCEPT ![r] = "done"]
    /\ UNCHANGED <<grid, hourly_forecast, theme, idx, chart_labels,
                   chart_real_feel, upstream, call>>

Hours == {0, 5, 6, 12, 18, 19, 23}
StartHours == {0, 22}

\* one request served alone, over every provider response of the model
Next ==
    \/ PointLookup(1, PointResponses)
    \/ ForecastFetch(1, ForecastFailures \cup
          ForecastOkResponses(0..MaxPeriods, StartHours,
                              0..(NumWellFormed - 1), 0..NumMalformed))
    \/ SelectTheme(1, Hours)
    \/ EnrichPeriod(1)
    \/ Render(1)

Spec == Init /\ [][Next]_vars

\* every request served at once, their steps interleaved
NextConcurrent ==
    \E r \in Requests :
        \/ PointLookup(r, {PointOkResponse,
                           PointResponse(TRUE, 404, TRUE, FALSE, {})})
        \/ ForecastFetch(r,
              {ForecastResponse(TRUE, 200, TRUE, TRUE, FALSE, <<>>)} \cup
              ForecastOkResponses(0..MaxConcPeriods, {22}, {r}, {0, 1}))
        \/ SelectTheme(r, {12})
        \/ EnrichPeriod(r)
        \/ Render(r)

SpecConcurrent == Init /\ [][NextConcurrent]_vars

(***************************************************************************)
(* The comfort-metric functions and the loop body called on their own,     *)
(* over bounded sets of arguments.                                         *)
(***************************************************************************)
CalcTemps == {None} \cup {Num(t) : t \in {-40, 0, 32, 72, 100}}
CalcWinds == {None} \cup {Num(v) : v \in 0..MaxWindMph}
FeelValues == {None} \cup {Num(k) : k \in {-8, -7, 20, 21, 30, 87, 100}}

WindFixtures ==
    {None} \cup
    {Str(Chars(str)) : str \in
        {"10 mph", "5 mph", "2 mph", "3 mph", "mph", " 12 mph", "7 mph\n",
         "8\nmph", "10&nbsp;mph", "6 mph&nbsp;NW", "10mph", "5 to 10 mph", ""}}

WindAlphabet == {"4", "m", " ", "\n"}

\* every text of at most MaxTextLen characters of the alphabet
WindTexts ==
    {Str(cs) : cs \in UNION {[1..k -> WindAlphabet] : k \in 0..MaxTextLen}}

CallWindChill ==
    /\ call.fn = "none"
    /\ \E temp_f \in CalcTemps, mph \in CalcWinds :
         call' = [fn |-> "calculate_wind_chill", temp_f |-> temp_f,
                  wind_speed_mph |-> mph,
                  out |-> calculate_wind_chill(temp_f, mph)]
    /\ UNCHANGED <<pc, grid, hourly_forecast, theme, idx, chart_labels,
                   chart_real_feel, response, upstream>>

CallRealFeel ==
    /\ call.fn = "none"
    /\ \E temp_f \in CalcTemps, wind_chill \in FeelValues,
          heat_index \in FeelValues :
         call' = [fn |-> "real_feel", temp_f |-> temp_f,
                  wind_chill |-> wind_chill, heat_index |-> heat_index,
                  out |-> real_feel(temp_f, wind_chill, heat_index)]
    /\ UNCHANGED <<pc, grid, hourly_forecast, theme, idx, chart_labels,
                   chart_real_feel, response, upstream>>

\* the loop body on one period of provider data
CallEnrichOne ==
    /\ call.fn = "none"
    /\ \E start \in {Time(11, 5, 0), Time(11, 5, 15)},
          temp \in {None, Num(30), Num(72)},
          hum \in {Wrap(None), Wrap(Num(50))},
          wind \in WindFixtures,
          dew \in {Wrap(None), Wrap(Num(12))} :
         LET period == Period(start, temp, hum, wind, dew, Wrap(Num(20)))
         IN call' = [fn |-> "EnrichOne", period |-> period,
                     out |-> EnrichOne(period)]
    /\ UNCHANGED <<pc, grid, hourly_forecast, theme, idx, chart_labels,
                   chart_real_feel, response, upstream>>

\* the loop body on a period that has only a wind-speed text
CallEnrichWind ==
    /\ call.fn = "none"
    /\ \E wind \in WindTexts \cup WindFixtures :
         LET period == Period(Time(11, 5, 15), None, Wrap(None), wind,
                              Wrap(None), Wrap(None))
         IN call' = [fn |-> "EnrichWind", period |-> period,
                     out |-> EnrichOne(period)]
    /\ UNCHANGED <<pc, grid, hourly_forecast, theme, idx, chart_labels,
                   chart_real_feel, response, upstream>>

NextCalc == CallWindChill \/ CallRealFeel \/ CallEnrichOne \/ CallEnrichWind

SpecCalc == Init /\ [][NextCalc]_vars

(***************************************************************************)
(* The properties.                                                         *)
(***************************************************************************)
\* the point lookup failed: transport error, non-success status, a body
\* that is not JSON, or a missing properties.gridId / gridX / gridY
LookupFailed(resp) ==
    \/ ~resp.transport
    \/ resp.status \notin 200..299
    \/ ~resp.json
    \/ ~resp.props
    \/ ~(AllGridKeys \subseteq resp.keys)

\* the hourly-forecast request failed, likewise, or has no periods field
FetchFailed(resp) ==
    \/ ~resp.transport
    \/ resp.status \notin 200..299
    \/ ~resp.json
    \/ ~resp.props
    \/ ~resp.hasPeriods

\* an upstream call of request r failed
UpstreamFailed(r) ==
    \/ Len(upstream[r]) >= 1 /\ LookupFailed(upstream[r][1].resp)
    \/ Len(upstream[r]) = 2 /\ FetchFailed(upstream[r][2].resp)

EmptyPage(th) == Response(200, "page", th, <<>>, <<>>, <<>>)

C2_EveryRequestHandled ==
    \A r \in Requests :
        pc[r] = "done" =>
            /\ response[r].body \in {"page", "error_text"}
            /\ response[r].status = 200

\* the periods the provider sent to request r
Provided(r) == upstream[r][2].resp.periods

Min(a, b) == IF a < b THEN a ELSE b

\* C3: of n periods sent, the series retained is the first min(n, 24) in
\* provider order; the chart labels and the chart real-feel values grow with
\* the loop, entry i of both coming from retained period i, and once the
\* loop has run both have that length.
C3_Truncation ==
    \A r \in Requests :
        (Len(upstream[r]) = 2 /\ ~FetchFailed(upstream[r][2].resp)) =>
            LET k == Min(Len(Provided(r)), 24)
            IN /\ pc[r] = "fetched" =>
                     hourly_forecast[r] = SubSeq(Provided(r), 1, k)
               /\ pc[r] \in {"enrich", "done"} =>
                     /\ Len(hourly_forecast[r]) = k
                     /\ \A i \in 1..k :
                          /\ hourly_forecast[r][i].startTime =
                                Provided(r)[i].startTime
                          /\ hourly_forecast[r][i].temperature =
                                Provided(r)[i].temperature
                          /\ hourly_forecast[r][i].relativeHumidity =
                                Provided(r)[i].relativeHumidity
               /\ pc[r] \in {"enrich", "done"} =>
                     /\ idx[r] <= k
                     /\ Len(chart_labels[r]) = idx[r]
                     /\ Len(chart_real_feel[r]) = idx[r]
                     /\ \A i \in 1..idx[r] :
                          /\ chart_labels[r][i] =
                                format_time(Provided(r)[i].startTime, FALSE).s
                          /\ chart_real_feel[r][i] =
                                EnrichOne(Provided(r)[i]).real_feel
               /\ (pc[r] = "done" /\ response[r].body = "page") =>
                     /\ Len(response[r].rows) = k
                     /\ Len(response[r].chart_labels) = k
                     /\ Len(response[r].chart_real_feel) = k
                     /\ \A i \in 1..k :
                          /\ response[r].chart_labels[i] =
                                format_time(Provided(r)[i].startTime, FALSE).s
                          /\ response[r].chart_real_feel[i] =
                                EnrichOne(Provided(r)[i]).real_feel

C3_Witness ==
    \E r \in Requests :
        /\ pc[r] = "done"
        /\ response[r].body = "page"
        /\ Len(upstream[r]) = 2
        /\ Len(Provided(r)) > 24
        /\ Len(response[r].chart_labels) = 24
        /\ Len(response[r].chart_real_feel) = 24

\* C4: the real feel is the average of wind chill and heat index rounded to
\* a nearest integer when both are there, the one that is there when only
\* one is, and the raw temperature (None included) when neither is;
\* (30, None) gives 30, (None, None, 72) gives 72, (20, 100) gives 60.
C4_RealFeel ==
    call.fn = "real_feel" =>
        LET wc == call.wind_chill
            hi == call.heat_index
        IN /\ (~IsNone(wc) /\ ~IsNone(hi)) =>
                 /\ IsNum(call.out)
                 /\ 2 * call.out.n - (wc.n + hi.n) \in {-1, 0, 1}
           /\ (~IsNone(wc) /\ IsNone(hi)) => call.out = wc
           /\ (IsNone(wc) /\ ~IsNone(hi)) => call.out = hi
           /\ (IsNone(wc) /\ IsNone(hi)) => call.out = call.temp_f
           /\ (wc = Num(30) /\ hi = None) => call.out = Num(30)
           /\ (wc = None /\ hi = None /\ call.temp_f = Num(72)) =>
                 call.out = Num(72)
           /\ (wc = Num(20) /\ hi = Num(100)) => call.out = Num(60)

C4_Witness ==
    /\ call.fn = "real_feel"
    /\ call.wind_chill = Num(20)
    /\ call.heat_index = Num(100)
    /\ call.out = Num(60)

\* the wind-speed text of a period has no leading number
Unparsed(wind) ==
    IsStr(wind) /\ (Split(wind.s) = <<>> \/ ~IsDigit(Split(wind.s)[1]))

\* C5: calculate_wind_chill returns None exactly when the temperature is
\* None, the wind speed is None or the wind speed is below 3 mph, and an
\* integer otherwise, at exactly 3 mph too; in the loop a period whose wind-
\* speed text does not parse to a number has no wind chill.
C5_WindChillNull ==
    /\ call.fn = "calculate_wind_chill" =>
          /\ IsNone(call.out) <=>
                \/ IsNone(call.temp_f)
                \/ IsNone(call.wind_speed_mph)
                \/ call.wind_speed_mph.n < 3
          /\ ~IsNone(call.out) => IsNum(call.out)
    /\ (call.fn = "EnrichOne" /\ Unparsed(call.period.windSpeed)) =>
          /\ ~call.out.raised
          /\ call.out.wind_chill = None
          /\ call.out.period.windChill = Str(<<>>)

C5_Witness ==
    /\ call.fn = "calculate_wind_chill"
    /\ call.temp_f = Num(0)
    /\ call.wind_speed_mph = Num(3)
    /\ call.out = Num(-7)

\* the response request r would get from its own provider responses if it
\* were served alone
RECURSIVE EnrichAll(_, _, _, _)
EnrichAll(forecast, i, labels, values) ==
    IF i > Len(forecast)
    THEN [raised |-> FALSE, forecast |-> forecast, labels |-> labels,
          values |-> values]
    ELSE LET e == EnrichOne(forecast[i])
         IN IF e.raised
            THEN [raised |-> TRUE, forecast |-> forecast, labels |-> labels,
                  values |-> values]
            ELSE EnrichAll([forecast EXCEPT ![i] = e.period], i + 1,
                           Append(labels, e.label.s),
                           Append(values, e.real_feel))

HomeAlone(log, th) ==
    LET periods == IF Len(log) = 2 /\ ~FetchFailed(log[2].resp)
                   THEN Take(log[2].resp.periods, 24)
                   ELSE <<>>
        run == EnrichAll(periods, 1, <<>>, <<>>)
    IN IF run.raised THEN Unhandled
       ELSE Page(run.forecast, th, run.labels, run.values)

\* every answered request has the response it would get alone
AnsweredAsAlone ==
    \A r \in Requests :
        pc[r] = "done" => response[r] = HomeAlone(upstream[r], theme[r])

\* request r takes this step: each step of home moves its position, its
\* loop index or its log of upstream requests
Stepped(r) ==
    pc'[r] # pc[r] \/ idx'[r] # idx[r] \/ upstream'[r] # upstream[r]

\* a step leaves the state of every request that does not take it as it is
OthersUntouched ==
    \A r \in Requests :
        ~Stepped(r) =>
            /\ grid'[r] = grid[r]
            /\ hourly_forecast'[r] = hourly_forecast[r]
            /\ theme'[r] = theme[r]
            /\ chart_labels'[r] = chart_labels[r]
            /\ chart_real_feel'[r] = chart_real_feel[r]
            /\ response'[r] = response[r]

\* C6: with the steps of several requests interleaved in any order, no step
\* of one request changes the state of another, and the response of each
\* request is the one it would get alone from the provider responses it
\* received itself.
C6_RequestsIndependent == []AnsweredAsAlone /\ [][OthersUntouched]_vars

C6_Witness ==
    /\ pc[1] = "done"
    /\ response[1].body = "page"
    /\ Len(response[1].rows) = 2
    /\ pc[2] = "enrich"
    /\ idx[2] = 1
    /\ Len(hourly_forecast[2]) = 2

\* C7: the point lookup is the first upstream request and is issued once;
\* the forecast request is issued at most once, only after a successful
\* lookup, for the grid cell it returned; a failed call is followed by no
\* further upstream request.
C7_UpstreamOrder ==
    \A r \in Requests :
        LET log == upstream[r]
        IN /\ Len(log) <= 2
           /\ pc[r] # "start" => Len(log) >= 1
           /\ Len(log) >= 1 => log[1].url = "points"
           /\ Len(log) = 2 =>
                 /\ log[2].url = "gridpoints"
                 /\ ~LookupFailed(log[1].resp)
                 /\ log[2].grid = [office |-> log[1].resp.gridId,
                                   x |-> log[1].resp.gridX,
                                   y |-> log[1].resp.gridY]

C7_Witness ==
    \E r \in Requests :
        /\ pc[r] = "done"
        /\ Len(upstream[r]) = 2
        /\ FetchFailed(upstream[r][2].resp)

\* "<int>°F" for a value, the empty string for None
IntOrEmpty(v) == IF IsNone(v) THEN <<>> ELSE IntText(v.n) \o DegF

\* C8: on every period the loop has passed, realFeel, windChill, heatIndex
\* and dewpoint are "<int>°F" when the derived value is there and the empty
\* string when it is None, realFeel included.
C8_DisplayStrings ==
    \A r \in Requests :
        \A i \in 1..idx[r] :
            LET e == EnrichOne(Provided(r)[i])
                p == hourly_forecast[r][i]
            IN /\ p.windChill.s = IntOrEmpty(e.wind_chill)
               /\ p.heatIndex.s = IntOrEmpty(e.heat_index)
               /\ p.dewpoint.s = IntOrEmpty(e.dewpoint_f)
               /\ p.realFeel.s = IntOrEmpty(e.real_feel)

\* the label starts with the MM/DD stamp of `start` and a line break
Dated(label, start) == IsPrefix(DateStr(start) \o Br, label)

\* C9: the table row label and the chart label of a period carry the MM/DD
\* prefix exactly when the period is the first of the series or starts at
\* hour 00.
C9_DatePrefix ==
    \A r \in Requests :
        (pc[r] = "done" /\ response[r].body = "page") =>
            \A i \in 1..Len(response[r].rows) :
                LET start == hourly_forecast[r][i].startTime
                    due == i = 1 \/ start.h = 0
                IN /\ Dated(response[r].rows[i].time, start) <=> due
                   /\ Dated(response[r].chart_labels[i], start) <=> due

\* C9, amended: the table row label of a period carries the MM/DD prefix
\* exactly when the period is the first of the series or starts at hour 00;
\* its chart label carries it exactly when the period starts at hour 00.
C9_DatePrefixByUse ==
    \A r \in Requests :
        (pc[r] = "done" /\ response[r].body = "page") =>
            \A i \in 1..Len(response[r].rows) :
                LET start == hourly_forecast[r][i].startTime
                IN /\ Dated(response[r].rows[i].time, start) <=>
                         (i = 1 \/ start.h = 0)
                   /\ Dated(response[r].chart_labels[i], start) <=>
                         start.h = 0
                   /\ ~Dated(response[r].rows[i].time, start) =>
                         response[r].rows[i].time = TimeStr(start)
                   /\ ~Dated(response[r].chart_labels[i], start) =>
                         response[r].chart_labels[i] = TimeStr(start)

C9_Witness ==
    \E r \in Requests :
        /\ pc[r] = "done"
        /\ response[r].body = "page"
        /\ Len(response[r].rows) >= 3
        /\ hourly_forecast[r][1].startTime.h = 22
        /\ Dated(response[r].rows[1].time, hourly_forecast[r][1].startTime)
        /\ ~Dated(response[r].chart_labels[1],
                  hourly_forecast[r][1].startTime)
        /\ Dated(response[r].chart_labels[3],
                 hourly_forecast[r][3].startTime)

\* the number the formulas use for a wind-speed text
LeadingNumber(wind) ==
    IF IsNone(wind) \/ Unparsed(wind) THEN None
    ELSE Num(ParseInt(Split(wind.s)[1]))

=============================================================================
